---- MODULE Spec2Model ----
(***************************************************************************)
(* Model of src/Downloader.py: the multi-threaded range downloader.        *)
(*                                                                         *)
(* One main thread (Downloader.start), one fetcher thread per page         *)
(* (Downloader.__download), the feeder thread of the multiprocessing       *)
(* queue, and the Logger process (Logger.run).                             *)
(***************************************************************************)
EXTENDS Integers, Sequences, FiniteSets, TLC

\* ------------------------------------------------------------------ bounds
\* Largest Content-Length the server announces in the threaded model.
MaxContentSize == 3
\* Largest threads_num the Downloader is constructed with.
MaxThreadsNum == 2
\* Largest chunk_size the Downloader is constructed with.
MaxChunkSize == 2
\* Input ranges of the page dispatcher when it is checked on its own.
PartMaxContentSize == 40
PartMaxThreadsNum == 24

VARIABLES
    remote_size,     \* Content-Length the server announces for the URL
    threads_num,     \* self.threads_num
    chunk_size,      \* self.chunk_size
    content_size,    \* self.__content_size
    mainpc,          \* position of the thread running start()
    pages,           \* the list returned by __page_dispatcher; pages[k] is
                     \* the page dict handed to (and mutated by) thread k
    spawned,         \* number of threads start() has started
    joined,          \* number of threads start() has joined
    file_open,       \* the target file object is open
    file,            \* file contents: offset -> source byte written there
    writers,         \* offset -> the threads that have written there
    file_pos,        \* position of the shared file object
    file_lock,       \* self.__file_lock: 0 when free, else the holder
    tpc,             \* position of each fetcher thread
    entry,           \* self.__threads_status[thread_name] (page_size, status);
                     \* its "page" is the very dict pages[k]
    response,        \* per thread: the part of the body not yet read
    data,            \* per thread: the chunk in hand
    buffered,        \* objects put on the queue and not yet pickled
    logger_status,   \* Logger.__threads_status
    written,         \* per thread: bytes it has written to the file so far
    fault,           \* per thread: what went wrong in it, if anything
    status_bound,    \* self.__threads_status is still the dict of this job
    result           \* what start() handed back to its caller

vars == <<remote_size, threads_num, chunk_size, content_size, mainpc, pages,
          spawned, joined, file_open, file, writers, file_pos, file_lock, tpc,
          entry,
          response, data, buffered, logger_status, written, fault,
          status_bound, result>>

\* ------------------------------------------------------- pure functions

\* Byte i of the remote file.  Bytes are told apart by their offset.
Source(i) == i

\* remote_size when the HEAD request fails or its answer has no numeric
\* Content-Length.
NoLength == -1

NoEntry == [page_size |-> 0, status |-> -1]
NoData == [from |-> 0, len |-> 0]
NoResponse == [from |-> 0, left |-> 0]
NoSnapshot == [content_size |-> 0, threads |-> <<>>]

\* The while loop of __page_dispatcher and the page appended after it.
RECURSIVE PageLoop(_, _, _, _)
PageLoop(size, basic_page_size, start_pos, acc) ==
    IF start_pos + basic_page_size < size
    THEN PageLoop(size, basic_page_size, start_pos + basic_page_size + 1,
                  Append(acc, [start_pos |-> start_pos,
                               end_pos |-> start_pos + basic_page_size]))
    ELSE Append(acc, [start_pos |-> start_pos, end_pos |-> size - 1])

\* Mutants of the dispatcher: the last page ends at content_size instead of
\* content_size - 1; the loop runs while start + basic <= content_size.
PageDispatcherEndAtSize(size, num) ==
    LET ps == PageLoop(size, size \div num, 0, <<>>)
    IN  [ps EXCEPT ![Len(ps)].end_pos = size]

RECURSIVE PageLoopInclusive(_, _, _, _)
PageLoopInclusive(size, basic_page_size, start_pos, acc) ==
    IF start_pos + basic_page_size <= size
    THEN PageLoopInclusive(size, basic_page_size,
                           start_pos + basic_page_size + 1,
                           Append(acc, [start_pos |-> start_pos,
                                        end_pos |-> start_pos + basic_page_size]))
    ELSE Append(acc, [start_pos |-> start_pos, end_pos |-> size - 1])

PageDispatcherInclusive(size, num) ==
    PageLoopInclusive(size, size \div num, 0, <<>>)

\* Downloader.__page_dispatcher
PageDispatcher(size, num) == PageLoop(size, size \div num, 0, <<>>)

\* The threads the job consists of: thread k downloads pages[k].
Threads == 1..Len(pages)

\* What Logger.__log_threadinfo adds up for one thread.
ThreadDownloadedSize(st) ==
    st.page_size - (st.page.end_pos - st.page.start_pos)

\* downloaded_size of Logger.__log_threadinfo over a status dict.
RECURSIVE SumOver(_, _)
SumOver(threads, S) ==
    IF S = {} THEN 0
    ELSE LET t == CHOOSE x \in S : TRUE
         IN  ThreadDownloadedSize(threads[t]) + SumOver(threads, S \ {t})

DownloadedSize(threads) == SumOver(threads, DOMAIN threads)

\* The line Logger.__log_threadinfo prints for one thread.
Shown(st) ==
    IF st.status = 0
    THEN IF st.page.start_pos < st.page.end_pos THEN "Downloaded"
         ELSE "Finished"
    ELSE IF st.status = 1 THEN "Crushed" ELSE "Nothing"

\* The dict self.__threads_status as pickling sees it: the entries of the
\* threads registered so far, each with the current state of its page.
Registered == {t \in Threads : entry[t].status # -1}

ThreadsStatus ==
    [content_size |-> content_size,
     threads |-> [t \in Registered |->
                    [page_size |-> entry[t].page_size,
                     page |-> pages[t],
                     status |-> entry[t].status]]]

\* ----------------------------------------------------------------- Init

InitWith(sizes, nums, chunks) ==
    /\ remote_size \in sizes
    /\ threads_num \in nums
    /\ chunk_size \in chunks
    /\ content_size = 0
    /\ mainpc = "establish_connect"
    /\ pages = <<>>
    /\ spawned = 0
    /\ joined = 0
    /\ file_open = FALSE
    /\ file = <<>>
    /\ writers = <<>>
    /\ file_pos = 0
    /\ file_lock = 0
    /\ tpc = <<>>
    /\ entry = <<>>
    /\ response = <<>>
    /\ data = <<>>
    /\ buffered = 0
    /\ logger_status = NoSnapshot
    /\ written = <<>>
    /\ fault = <<>>
    /\ status_bound = TRUE
    /\ result = "running"

\* chunk_size is the largest the bounds allow: iter_content may hand over
\* any shorter chunk as well, so the smaller sizes add no behaviour.
Init ==
    InitWith((1..MaxContentSize) \cup {NoLength}, 1..MaxThreadsNum,
             {MaxChunkSize})

\* ---------------------------------------------------- start(), main thread

threadVars == <<tpc, entry, response, data, written, fault>>
fileVars == <<file, writers, file_pos, file_lock>>
logVars == <<buffered, logger_status>>
confVars == <<remote_size, threads_num, chunk_size>>

\* start(), lines 139-147: __establish_connect reads Content-Length, the
\* meta information goes into the status dict, the logger process starts.
EstablishConnect ==
    /\ mainpc = "establish_connect"
    /\ remote_size # NoLength
    /\ content_size' = remote_size
    /\ mainpc' = "open"
    /\ UNCHANGED <<confVars, pages, spawned, joined, file_open, status_bound,
                   result, threadVars, fileVars, logVars>>

\* Mutant of ProbeFails: the error is swallowed and start() goes on with
\* the content size it has.
ProbeFailsGoesOn ==
    /\ mainpc = "establish_connect"
    /\ remote_size = NoLength
    /\ mainpc' = "open"
    /\ UNCHANGED <<confVars, content_size, pages, spawned, joined, file_open,
                   status_bound, result, threadVars, fileVars, logVars>>

\* start(), line 142 -> __establish_connect, lines 59-60: requests.head
\* raises, or hdr["Content-Length"] raises KeyError, or int() raises
\* ValueError.  Nothing catches it: start() ends with the exception.
ProbeFails ==
    /\ mainpc = "establish_connect"
    /\ remote_size = NoLength
    /\ mainpc' = "aborted"
    /\ result' = "raised"
    /\ UNCHANGED <<confVars, content_size, pages, spawned, joined, file_open,
                   status_bound, threadVars, fileVars, logVars>>

\* start(), line 148: open(target_file, "wb+") truncates the file.
OpenFile ==
    /\ mainpc = "open"
    /\ file_open' = TRUE
    /\ file' = <<>>
    /\ writers' = <<>>
    /\ file_pos' = 0
    /\ mainpc' = "dispatch"
    /\ UNCHANGED <<confVars, content_size, pages, spawned, joined,
                   status_bound, result, threadVars, file_lock, logVars>>

\* start(), line 149: the call of __page_dispatcher the for loop runs over.
Dispatch ==
    /\ mainpc = "dispatch"
    /\ pages' = PageDispatcher(content_size, threads_num)
    /\ tpc' = [t \in 1..Len(pages') |-> "unborn"]
    /\ entry' = [t \in 1..Len(pages') |-> NoEntry]
    /\ response' = [t \in 1..Len(pages') |-> NoResponse]
    /\ data' = [t \in 1..Len(pages') |-> NoData]
    /\ written' = [t \in 1..Len(pages') |-> 0]
    /\ fault' = [t \in 1..Len(pages') |-> "none"]
    /\ mainpc' = "spawn"
    /\ UNCHANGED <<confVars, content_size, spawned, joined, file_open,
                   status_bound, result, fileVars, logVars>>

\* start(), lines 150-154: one pass of the for loop starts one thread.
Spawn ==
    /\ mainpc = "spawn"
    /\ spawned' = spawned + 1
    /\ tpc' = [tpc EXCEPT ![spawned + 1] = "register"]
    /\ mainpc' = IF spawned + 1 = Len(pages) THEN "join" ELSE "spawn"
    /\ UNCHANGED <<confVars, content_size, pages, joined, file_open,
                   status_bound, result, entry, response, data, written,
                   fault, fileVars, logVars>>

\* A thread is over: __download returned, or died of an uncaught exception.
Over(t) == tpc[t] \in {"done", "dead"}

\* Mutant of Join: the loop goes on without waiting for the thread.
JoinNoWait ==
    /\ mainpc = "join"
    /\ joined' = joined + 1
    /\ mainpc' = IF joined + 1 = Len(pages) THEN "close" ELSE "join"
    /\ UNCHANGED <<confVars, content_size, pages, spawned, file_open,
                   status_bound, result, threadVars, fileVars, logVars>>

\* start(), lines 155-156: thd.join() returns once that thread is over.
Join ==
    /\ mainpc = "join"
    /\ Over(joined + 1)
    /\ joined' = joined + 1
    /\ mainpc' = IF joined + 1 = Len(pages) THEN "close" ELSE "join"
    /\ UNCHANGED <<confVars, content_size, pages, spawned, file_open,
                   status_bound, result, threadVars, fileVars, logVars>>

\* start(), line 156 -> 157: leaving the with block closes the file.
CloseFile ==
    /\ mainpc = "close"
    /\ file_open' = FALSE
    /\ mainpc' = "finish"
    /\ UNCHANGED <<confVars, content_size, pages, spawned, joined,
                   status_bound, result, threadVars, fileVars, logVars>>

\* start(), lines 158-162: the logger is waited for one second, the status
\* attribute is bound to a fresh dict, the time is printed; nothing is
\* returned.
Finish ==
    /\ mainpc = "finish"
    /\ status_bound' = FALSE
    /\ result' = "None"
    /\ mainpc' = "done"
    /\ UNCHANGED <<confVars, content_size, pages, spawned, joined, file_open,
                   threadVars, fileVars, logVars>>

\* ------------------------------------------- __download, fetcher thread t

Min(a, b) == IF a < b THEN a ELSE b

\* The body a server sends for "Range: bytes=first-last" when it sends
\* exactly what was asked for.
RangeBody(first, last) ==
    [from |-> first, left |-> IF last >= first THEN last - first + 1 ELSE 0]

\* file.write(data) at the position of the file object.
WriteAt(f, pos, d) ==
    [o \in (DOMAIN f) \cup {pos + k : k \in 0..(d.len - 1)} |->
        IF o >= pos /\ o < pos + d.len THEN Source(d.from + (o - pos))
        ELSE f[o]]

\* Mutant of Register: page_size counts the bytes of the inclusive range.
RegisterInclusive(t) ==
    /\ tpc[t] = "register"
    /\ entry' = [entry EXCEPT ![t] =
                    [page_size |-> pages[t].end_pos - pages[t].start_pos + 1,
                     status |-> 0]]
    /\ tpc' = [tpc EXCEPT ![t] = "get"]
    /\ UNCHANGED <<confVars, content_size, mainpc, pages, spawned, joined,
                   file_open, status_bound, result, response, data, written,
                   fault, fileVars, logVars>>

\* The threads that have written at each offset, after thread t has written
\* len bytes at pos.
WritersAt(w, pos, len, t) ==
    [o \in (DOMAIN w) \cup {pos + k : k \in 0..(len - 1)} |->
        (IF o \in DOMAIN w THEN w[o] ELSE {})
            \cup (IF o >= pos /\ o < pos + len THEN {t} ELSE {})]

\* __download, lines 94-103: the Range header and the thread's status entry.
Register(t) ==
    /\ tpc[t] = "register"
    /\ entry' = [entry EXCEPT ![t] =
                    [page_size |-> pages[t].end_pos - pages[t].start_pos,
                     status |-> 0]]
    /\ tpc' = [tpc EXCEPT ![t] = "get"]
    /\ UNCHANGED <<confVars, content_size, mainpc, pages, spawned, joined,
                   file_open, status_bound, result, response, data, written,
                   fault, fileVars, logVars>>

\* Mutant of Get: the Range header has no last byte, "bytes=start-".
GetOpenEnded(t) ==
    /\ tpc[t] = "get"
    /\ response' = [response EXCEPT ![t] =
                      RangeBody(pages[t].start_pos, content_size - 1)]
    /\ tpc' = [tpc EXCEPT ![t] = "iter"]
    /\ UNCHANGED <<confVars, content_size, mainpc, pages, spawned, joined,
                   file_open, status_bound, result, entry, data, written,
                   fault, fileVars, logVars>>

\* __download, lines 106-111: the GET is answered.
Get(t) ==
    /\ tpc[t] = "get"
    /\ response' = [response EXCEPT ![t] =
                      RangeBody(pages[t].start_pos, pages[t].end_pos)]
    /\ tpc' = [tpc EXCEPT ![t] = "iter"]
    /\ UNCHANGED <<confVars, content_size, mainpc, pages, spawned, joined,
                   file_open, status_bound, result, entry, data, written,
                   fault, fileVars, logVars>>

\* __download, line 112: iter_content hands over the next chunk, of at most
\* chunk_size bytes.
NextChunk(t) ==
    /\ tpc[t] = "iter"
    /\ response[t].left > 0
    /\ \E n \in 1..Min(chunk_size, response[t].left) :
          /\ data' = [data EXCEPT ![t] =
                         [from |-> response[t].from, len |-> n]]
          /\ response' = [response EXCEPT ![t] =
                             [from |-> response[t].from + n,
                              left |-> response[t].left - n]]
    /\ tpc' = [tpc EXCEPT ![t] = "acquire"]
    /\ UNCHANGED <<confVars, content_size, mainpc, pages, spawned, joined,
                   file_open, status_bound, result, entry, written, fault,
                   fileVars, logVars>>

\* __download, line 112: the body is exhausted, the for loop and the
\* function end.
EndOfBody(t) ==
    /\ tpc[t] = "iter"
    /\ response[t].left = 0
    /\ tpc' = [tpc EXCEPT ![t] = "done"]
    /\ UNCHANGED <<confVars, content_size, mainpc, pages, spawned, joined,
                   file_open, status_bound, result, entry, response, data,
                   written, fault, fileVars, logVars>>

\* __download, lines 106-112: requests.get or iter_content raises a
\* RequestException (connection error, timeout, broken stream).
RequestFails(t) ==
    /\ tpc[t] \in {"get", "iter"}
    /\ fault[t] = "none"
    /\ fault' = [fault EXCEPT ![t] = "net"]
    /\ tpc' = [tpc EXCEPT ![t] = "except"]
    /\ UNCHANGED <<confVars, content_size, mainpc, pages, spawned, joined,
                   file_open, status_bound, result, entry, response, data,
                   written, fileVars, logVars>>

\* __download, line 112: the server ends the body before the last byte of
\* the range; iter_content just stops.
BodyCutShort(t) ==
    /\ tpc[t] = "iter"
    /\ response[t].left > 0
    /\ fault' = [fault EXCEPT ![t] = "short"]
    /\ response' = [response EXCEPT ![t] = [@ EXCEPT !.left = 0]]
    /\ tpc' = [tpc EXCEPT ![t] = "done"]
    /\ UNCHANGED <<confVars, content_size, mainpc, pages, spawned, joined,
                   file_open, status_bound, result, entry, data, written,
                   fileVars, logVars>>

\* Mutant of Acquire: the thread goes on without waiting for the lock.
AcquireNoWait(t) ==
    /\ tpc[t] = "acquire"
    /\ file_lock' = t
    /\ tpc' = [tpc EXCEPT ![t] = "seek"]
    /\ UNCHANGED <<confVars, content_size, mainpc, pages, spawned, joined,
                   file_open, status_bound, result, entry, response, data,
                   written, fault, file, writers, file_pos, logVars>>

\* __download, line 114: with self.__file_lock, entry.
Acquire(t) ==
    /\ tpc[t] = "acquire"
    /\ file_lock = 0
    /\ file_lock' = t
    /\ tpc' = [tpc EXCEPT ![t] = "seek"]
    /\ UNCHANGED <<confVars, content_size, mainpc, pages, spawned, joined,
                   file_open, status_bound, result, entry, response, data,
                   written, fault, file, writers, file_pos, logVars>>

\* __download, line 116: file.seek(page["start_pos"]).
Seek(t) ==
    /\ tpc[t] = "seek"
    /\ file_pos' = pages[t].start_pos
    /\ tpc' = [tpc EXCEPT ![t] = "write"]
    /\ UNCHANGED <<confVars, content_size, mainpc, pages, spawned, joined,
                   file_open, status_bound, result, entry, response, data,
                   written, fault, file, writers, file_lock, logVars>>

\* __download, line 118: file.write(data), at the file object's position.
Write(t) ==
    /\ tpc[t] = "write"
    /\ file' = WriteAt(file, file_pos, data[t])
    /\ writers' = WritersAt(writers, file_pos, data[t].len, t)
    /\ file_pos' = file_pos + data[t].len
    /\ written' = [written EXCEPT ![t] = @ + data[t].len]
    /\ tpc' = [tpc EXCEPT ![t] = "release"]
    /\ UNCHANGED <<confVars, content_size, mainpc, pages, spawned, joined,
                   file_open, status_bound, result, entry, response, data,
                   fault, file_lock, logVars>>

\* Mutant of WriteFails: the lock is still held when the thread dies.
WriteFailsKeepsLock(t) ==
    /\ tpc[t] \in {"seek", "write"}
    /\ fault[t] = "none"
    /\ fault' = [fault EXCEPT ![t] = "io"]
    /\ tpc' = [tpc EXCEPT ![t] = "dead"]
    /\ UNCHANGED <<confVars, content_size, mainpc, pages, spawned, joined,
                   file_open, status_bound, result, entry, response, data,
                   written, fileVars, logVars>>

\* __download, lines 116-118: seek or write raises an OSError.  The with
\* statement releases the lock; no except clause matches, the thread dies.
WriteFails(t) ==
    /\ tpc[t] \in {"seek", "write"}
    /\ fault[t] = "none"
    /\ fault' = [fault EXCEPT ![t] = "io"]
    /\ file_lock' = IF file_lock = t THEN 0 ELSE file_lock
    /\ tpc' = [tpc EXCEPT ![t] = "dead"]
    /\ UNCHANGED <<confVars, content_size, mainpc, pages, spawned, joined,
                   file_open, status_bound, result, entry, response, data,
                   written, file, writers, file_pos, logVars>>

\* Mutant of Release: the lock is not given back.
ReleaseNot(t) ==
    /\ tpc[t] = "release"
    /\ tpc' = [tpc EXCEPT ![t] = "advance"]
    /\ UNCHANGED <<confVars, content_size, mainpc, pages, spawned, joined,
                   file_open, status_bound, result, entry, response, data,
                   written, fault, fileVars, logVars>>

\* __download, line 118 -> 120: with self.__file_lock, exit.
Release(t) ==
    /\ tpc[t] = "release"
    /\ file_lock' = IF file_lock = t THEN 0 ELSE file_lock
    /\ tpc' = [tpc EXCEPT ![t] = "advance"]
    /\ UNCHANGED <<confVars, content_size, mainpc, pages, spawned, joined,
                   file_open, status_bound, result, entry, response, data,
                   written, fault, file, writers, file_pos, logVars>>

\* Mutants of Advance: the cursor stays where it is; the cursor moves by
\* chunk_size whatever the length of the chunk.
AdvanceNot(t) ==
    /\ tpc[t] = "advance"
    /\ tpc' = [tpc EXCEPT ![t] = "put"]
    /\ UNCHANGED <<confVars, content_size, mainpc, pages, spawned, joined,
                   file_open, status_bound, result, entry, response, data,
                   written, fault, fileVars, logVars>>

AdvanceChunkSize(t) ==
    /\ tpc[t] = "advance"
    /\ pages' = [pages EXCEPT ![t].start_pos = @ + chunk_size]
    /\ tpc' = [tpc EXCEPT ![t] = "put"]
    /\ UNCHANGED <<confVars, content_size, mainpc, spawned, joined,
                   file_open, status_bound, result, entry, response, data,
                   written, fault, fileVars, logVars>>

\* __download, lines 120-121: page["start_pos"] += len(data).
Advance(t) ==
    /\ tpc[t] = "advance"
    /\ pages' = [pages EXCEPT ![t].start_pos = @ + data[t].len]
    /\ tpc' = [tpc EXCEPT ![t] = "put"]
    /\ UNCHANGED <<confVars, content_size, mainpc, spawned, joined,
                   file_open, status_bound, result, entry, response, data,
                   written, fault, fileVars, logVars>>

\* __download, lines 122-123: the status dict is put on the queue.
Put(t) ==
    /\ tpc[t] = "put"
    /\ buffered' = buffered + 1
    /\ data' = [data EXCEPT ![t] = NoData]
    /\ tpc' = [tpc EXCEPT ![t] = "iter"]
    /\ UNCHANGED <<confVars, content_size, mainpc, pages, spawned, joined,
                   file_open, status_bound, result, entry, response,
                   written, fault, fileVars, logger_status>>

\* __download, lines 125-127: the except clause puts the status dict.
Except(t) ==
    /\ tpc[t] = "except"
    /\ buffered' = buffered + 1
    /\ tpc' = [tpc EXCEPT ![t] = "set_status"]
    /\ UNCHANGED <<confVars, content_size, mainpc, pages, spawned, joined,
                   file_open, status_bound, result, entry, response, data,
                   written, fault, fileVars, logger_status>>

\* Mutant of SetStatus: the handler starts the request over.
SetStatusRetry(t) ==
    /\ tpc[t] = "set_status"
    /\ tpc' = [tpc EXCEPT ![t] = "get"]
    /\ UNCHANGED <<confVars, content_size, mainpc, pages, spawned, joined,
                   file_open, status_bound, result, entry, response, data,
                   written, fault, fileVars, logVars>>

\* Mutant of SetStatus: the handler marks every registered thread.
SetStatusAll(t) ==
    /\ tpc[t] = "set_status"
    /\ entry' = [u \in DOMAIN entry |->
                    IF entry[u].status = -1 THEN entry[u]
                    ELSE [entry[u] EXCEPT !.status = 1]]
    /\ tpc' = [tpc EXCEPT ![t] = "done"]
    /\ UNCHANGED <<confVars, content_size, mainpc, pages, spawned, joined,
                   file_open, status_bound, result, response, data, written,
                   fault, fileVars, logVars>>

\* __download, line 128: status = 1, the function ends.
SetStatus(t) ==
    /\ tpc[t] = "set_status"
    /\ entry' = [entry EXCEPT ![t].status = 1]
    /\ tpc' = [tpc EXCEPT ![t] = "done"]
    /\ UNCHANGED <<confVars, content_size, mainpc, pages, spawned, joined,
                   file_open, status_bound, result, response, data, written,
                   fault, fileVars, logVars>>

\* ------------------------------------------------ the queue and the Logger

\* Logger.run, lines 230-234, fed by the queue of line 123/127.
\* multiprocessing.Queue.put() only buffers the object; the queue's feeder
\* thread pickles it later, in the state the dict has by then, and the
\* Logger process unpickles and logs it.  The step below is that pickling
\* together with the Logger's pass over the result: what the Logger shows is
\* fixed at the moment of pickling.
LoggerRun ==
    /\ buffered > 0
    /\ buffered' = buffered - 1
    /\ logger_status' = ThreadsStatus
    /\ UNCHANGED <<confVars, content_size, mainpc, pages, spawned, joined,
                   file_open, status_bound, result, threadVars, fileVars>>

ThreadStep(t) ==
    \/ Register(t) \/ Get(t) \/ NextChunk(t) \/ EndOfBody(t)
    \/ RequestFails(t) \/ BodyCutShort(t)
    \/ Acquire(t) \/ Seek(t) \/ Write(t) \/ WriteFails(t) \/ Release(t)
    \/ Advance(t) \/ Put(t) \/ Except(t) \/ SetStatus(t)

Next ==
    \/ EstablishConnect \/ ProbeFails \/ OpenFile \/ Dispatch \/ Spawn \/ Join
    \/ CloseFile \/ Finish
    \/ \E t \in Threads : ThreadStep(t)
    \/ LoggerRun

Spec == Init /\ [][Next]_vars

\* The steps of the thread that runs start().
MainStep ==
    \/ EstablishConnect \/ ProbeFails \/ OpenFile \/ Dispatch \/ Spawn
    \/ Join \/ CloseFile \/ Finish

\* The same program under a fair scheduler: the main thread, every fetcher
\* thread and the Logger process each get to run when they can; a body
\* being read ends, raises or hands over its next chunk.
FairSpec ==
    /\ Spec
    /\ WF_vars(MainStep)
    /\ \A t \in 1..MaxThreadsNum : WF_vars(t \in Threads /\ ThreadStep(t))
    /\ WF_vars(LoggerRun)

\* -------------------------------------------- the dispatcher on its own

InitPart ==
    InitWith(1..PartMaxContentSize, 1..PartMaxThreadsNum, {MaxChunkSize})

NextPart == EstablishConnect \/ OpenFile \/ Dispatch \/ Spawn

SpecPart == InitPart /\ [][NextPart]_vars

\* ======================================================================
\* Properties of the page dispatcher (checked under SpecPart)
\* ======================================================================

\* The bytes a page asks for.
Bytes(p) == p.start_pos..p.end_pos

\* start() has the list of pages and has not started a thread yet.
Dispatched == mainpc = "spawn" /\ spawned = 0

\* C1: for every content size >= 1 and every thread count >= 1 the pages
\* are sorted by start, pairwise non-overlapping, contiguous from 0 (each
\* starts one past the end of the one before), and together cover exactly
\* the bytes 0..content_size-1; 1000 bytes over 3 threads give [0,333],
\* [334,667], [668,999].
PartitionCoverage ==
    /\ Dispatched =>
        /\ pages[1].start_pos = 0
        /\ \A i \in 1..(Len(pages) - 1) :
              /\ pages[i].start_pos < pages[i + 1].start_pos
              /\ pages[i + 1].start_pos = pages[i].end_pos + 1
        /\ \A i, j \in 1..Len(pages) :
              i # j => Bytes(pages[i]) \cap Bytes(pages[j]) = {}
        /\ UNION {Bytes(pages[i]) : i \in 1..Len(pages)}
              = 0..(content_size - 1)
    /\ PageDispatcher(1000, 3) = << [start_pos |-> 0, end_pos |-> 333],
                                    [start_pos |-> 334, end_pos |-> 667],
                                    [start_pos |-> 668, end_pos |-> 999] >>

\* Witness of C1: at least three pages, the last one shorter than the first.
PartitionCoverageWitness ==
    /\ Dispatched
    /\ Len(pages) >= 3
    /\ pages[Len(pages)].end_pos - pages[Len(pages)].start_pos
          < pages[1].end_pos - pages[1].start_pos
    /\ pages[Len(pages)].start_pos <= pages[Len(pages)].end_pos

\* C2: the dispatcher never emits an empty or negative page (start <= end
\* for every page), so there are never more pages than bytes.
PartitionNonEmpty ==
    Dispatched =>
        /\ \A i \in 1..Len(pages) : pages[i].start_pos <= pages[i].end_pos
        /\ Len(pages) <= content_size

\* C3: the number of pages, and so the number of threads start() starts,
\* is at least 1 and at most threads_num.
PartitionBounded ==
    pages # <<>> =>
        /\ Len(pages) >= 1
        /\ Len(pages) <= threads_num
        /\ spawned <= threads_num
        /\ mainpc = "join" => spawned = Len(pages)

\* Witness of C3: as many threads started as threads_num allows.
PartitionBoundedWitness ==
    /\ mainpc = "join"
    /\ threads_num >= 3
    /\ spawned = threads_num

\* ======================================================================
\* Properties of the threaded download (checked under Spec)
\* ======================================================================

\* The pages as the dispatcher handed them out, before any cursor moved.
OrigPages == PageDispatcher(content_size, threads_num)

\* Number of bytes in the range thread t was given.
RangeLen(t) ==
    IF OrigPages[t].end_pos >= OrigPages[t].start_pos
    THEN OrigPages[t].end_pos - OrigPages[t].start_pos + 1 ELSE 0

RECURSIVE SumWritten(_)
SumWritten(S) ==
    IF S = {} THEN 0
    ELSE LET t == CHOOSE x \in S : TRUE IN written[t] + SumWritten(S \ {t})

\* Bytes written to the file so far, by all threads.
TotalWritten == SumWritten(DOMAIN written)

NoFault == \A t \in Threads : fault[t] = "none"

\* C4: if every request is answered with exactly the requested bytes and no
\* thread fails, then, whatever the interleaving and the chunking, the file
\* holds source byte i at every offset i of 0..content_size-1 when start()
\* returns.
FileComplete ==
    (mainpc = "done" /\ NoFault) =>
        \A i \in 0..(content_size - 1) :
            i \in DOMAIN file /\ file[i] = Source(i)

\* Witness of C4: start() returned after two threads wrote, the first of
\* them its range in more than one chunk (the Logger saw it half way).
FileCompleteWitness ==
    /\ mainpc = "done"
    /\ NoFault
    /\ Len(pages) >= 2
    /\ written[1] >= 2
    /\ written[2] >= 1
    /\ 1 \in DOMAIN logger_status.threads
    /\ logger_status.threads[1].page.start_pos = 1

\* Thread t is between the entry and the exit of "with self.__file_lock".
InCritical(t) == tpc[t] \in {"seek", "write", "release"}

\* C5: at most one thread is inside the seek-and-write section at a time,
\* so a chunk is written at the position its own thread sought.
MutualExclusion ==
    /\ Cardinality({t \in Threads : InCritical(t)}) <= 1
    /\ \A t \in Threads :
          /\ InCritical(t) => file_lock = t
          /\ tpc[t] = "write" => file_pos = pages[t].start_pos

\* Witness of C5: one thread is about to write while another waits for
\* the lock.
MutualExclusionWitness ==
    \E t, u \in Threads :
        /\ t # u
        /\ tpc[t] = "write"
        /\ tpc[u] = "acquire"
        /\ pages[u].start_pos # pages[t].start_pos

\* C6: start() reports Success only if every thread ended finished, and
\* PartialFailure whenever a thread ended failed.
OutcomeReported ==
    mainpc = "done" =>
        /\ result = "Success" =>
              \A t \in Threads : Shown(ThreadsStatus.threads[t]) = "Finished"
        /\ (\E t \in Threads : entry[t].status = 1) =>
              result = "PartialFailure"

\* Thread t has written every byte of its range, moved its cursor past the
\* end of the range and is shown as finished.
Complete(t) ==
    /\ tpc[t] = "done"
    /\ entry[t].status = 0
    /\ written[t] = RangeLen(t)
    /\ pages[t].start_pos = OrigPages[t].end_pos + 1
    /\ \A i \in Bytes(OrigPages[t]) : i \in DOMAIN file /\ file[i] = Source(i)
    /\ Shown(ThreadsStatus.threads[t]) = "Finished"

\* C7: when a network error hits exactly one thread, at any point of its
\* transfer, every other thread still writes all bytes of its range and
\* ends finished; the failed thread neither holds the lock nor stops a
\* sibling.
Isolation ==
    \A u \in Threads :
        (fault[u] = "net" /\ \A t \in Threads \ {u} : fault[t] = "none") =>
            /\ file_lock # u
            /\ \A t \in Threads \ {u} :
                  /\ Over(t) => Complete(t)
                  /\ entry[t].status # 1
                  /\ (tpc[t] = "acquire" /\ file_lock # 0) =>
                        InCritical(file_lock)

\* Witness of C7: a thread failed after it had written part of its range,
\* and its sibling completed afterwards.
IsolationWitness ==
    \E u, t \in Threads :
        /\ u # t
        /\ fault[u] = "net"
        /\ tpc[u] = "done"
        /\ written[u] >= 1
        /\ fault[t] = "none"
        /\ Complete(t)
        /\ written[t] >= 1
        /\ mainpc = "done"

\* Every thread of the job is in the status dict with its cursor past the
\* end of its range.
AllReceived(threads) ==
    /\ DOMAIN threads = Threads
    /\ Threads # {}
    /\ \A t \in Threads :
          threads[t].page.start_pos = threads[t].page.end_pos + 1

\* No cursor in the status dict has moved.
NoneReceived(threads) ==
    \A t \in DOMAIN threads : threads[t].page = OrigPages[t]

\* C8: when every thread has received all bytes of its range, the sum over
\* the threads of page_size - (end_pos - start_pos) equals content_size;
\* before any chunk has arrived the sum is 0.  This holds of the status
\* dict and of every snapshot the Logger gets.
AggregateConservation ==
    \A threads \in {ThreadsStatus.threads, logger_status.threads} :
        /\ AllReceived(threads) => DownloadedSize(threads) = content_size
        /\ NoneReceived(threads) => DownloadedSize(threads) = 0

\* Witness of C8: the Logger holds a snapshot in which both of two threads
\* have received everything.
AggregateConservationWitness ==
    /\ Len(pages) >= 2
    /\ AllReceived(logger_status.threads)
    /\ DownloadedSize(logger_status.threads) = content_size
    /\ content_size >= 3

\* C9: the bytes transferred of a thread, page_size - (end_pos - start_pos),
\* never decrease and never exceed the size recorded for the thread when it
\* started, page_size.  Stated for the threads whose range is not empty.
ProgressMonotone ==
    [][\A t \in Threads :
          (t \in Registered /\ t \in Registered' /\ RangeLen(t) > 0) =>
              /\ ThreadDownloadedSize(ThreadsStatus.threads[t])
                    <= ThreadDownloadedSize(ThreadsStatus.threads[t])'
              /\ ThreadDownloadedSize(ThreadsStatus.threads[t])'
                    <= entry[t].page_size']_vars

\* C10: under every interleaving, the total a snapshot shows is never more
\* than the number of bytes written to the file by then.
NoOverCounting ==
    /\ DownloadedSize(ThreadsStatus.threads) <= TotalWritten
    /\ DownloadedSize(logger_status.threads) <= TotalWritten

\* Witness of C10: a snapshot is taken while a thread has written a chunk
\* and not yet moved its cursor.
NoOverCountingWitness ==
    /\ \E t \in Threads : tpc[t] \in {"release", "advance"}
    /\ logger_status = ThreadsStatus
    /\ DownloadedSize(logger_status.threads) >= 1
    /\ DownloadedSize(logger_status.threads) < TotalWritten

\* C11: if the metadata probe fails, start() ends with an error before any
\* page is computed and before any thread is started: no GET is issued and
\* no byte is written.
ProbeFailureAborts ==
    remote_size = NoLength =>
        /\ mainpc \in {"establish_connect", "aborted"}
        /\ mainpc = "aborted" => result = "raised"
        /\ pages = <<>>
        /\ spawned = 0
        /\ tpc = <<>>
        /\ response = <<>>
        /\ ~file_open
        /\ file = <<>>
        /\ buffered = 0

\* Witness of C11: start() has ended with the probe's exception.
ProbeFailureAbortsWitness ==
    /\ remote_size = NoLength
    /\ mainpc = "aborted"
    /\ result = "raised"

\* Thread t has been started and is not over yet.
Running(t) == tpc[t] # "unborn" /\ ~Over(t)

\* C12: start() neither closes the file nor returns while a thread it
\* started is still running, so no thread seeks or writes on a closed file,
\* whether its siblings succeeded or failed.
UnconditionalJoin ==
    /\ mainpc \in {"finish", "done"} =>
          /\ ~file_open
          /\ spawned = Len(pages)
          /\ \A t \in Threads : Over(t)
    /\ \A t \in Threads :
          Running(t) => file_open /\ mainpc \in {"spawn", "join"}

\* Witness of C12: start() has returned from a job in which one thread
\* failed and another wrote its range.
UnconditionalJoinWitness ==
    /\ mainpc = "done"
    /\ ~file_open
    /\ \E t, u \in Threads :
          /\ fault[t] # "none"
          /\ fault[u] = "none"
          /\ written[u] >= 1

\* C13: when start() returns every segment is in a terminal status,
\* finished (status 0 with the cursor past end_pos) or failed (status 1): no
\* thread stops with its segment still running and bytes outstanding.
AllTerminal ==
    mainpc = "done" =>
        \A t \in Threads :
            \/ entry[t].status = 1
            \/ entry[t].status = 0 /\ pages[t].start_pos > pages[t].end_pos

\* C15: an I/O error raised while a segment writes a chunk is handled like
\* a network error: the segment's status becomes failed and the error does
\* not leave the fetcher.
IOErrorHandled ==
    \A t \in Threads :
        (fault[t] = "io" /\ Over(t)) =>
            tpc[t] = "done" /\ entry[t].status = 1

\* C16: a segment is shown as finished only when its cursor is past the
\* end of its range; with a byte outstanding (start_pos <= end_pos) it is
\* never shown as finished.  Stated for the jobs in which no request and
\* no write has failed.
FinishedOnlyWhenComplete ==
    NoFault =>
        \A t \in DOMAIN logger_status.threads :
            Shown(logger_status.threads[t]) = "Finished" =>
                logger_status.threads[t].page.start_pos
                    > logger_status.threads[t].page.end_pos

\* A snapshot is taken in this step.
SnapshotTaken == buffered' = buffered - 1

\* C17: every snapshot taken once a segment has hit an error, the one its
\* own handler puts included, shows that segment as failed.
FailureShown ==
    [][SnapshotTaken =>
          \A t \in Threads :
              fault[t] = "net" =>
                  /\ t \in DOMAIN logger_status'.threads
                  /\ logger_status'.threads[t].status = 1]_vars

\* C14: when a network error hits a segment its status becomes failed, and
\* failed is terminal: the segment writes nothing more, its cursor stays,
\* its status does not go back to running, and no further request is made
\* for its range.
FailedIsTerminal ==
    [][\A t \in Threads :
          /\ fault[t] = "net" =>
                /\ fault'[t] = "net"
                /\ tpc'[t] \in {"except", "set_status", "done"}
                /\ written'[t] = written[t]
                /\ pages'[t] = pages[t]
                /\ response'[t] = response[t]
                /\ entry[t].status = 1 => entry'[t].status = 1
                /\ tpc[t] = "done" => tpc'[t] = "done"
          /\ (fault'[t] = "net" /\ tpc'[t] = "done") =>
                entry'[t].status = 1]_vars

\* Witness of C14: a segment that failed after its first chunk is failed
\* when start() returns.
FailedIsTerminalWitness ==
    /\ mainpc = "done"
    /\ \E t \in Threads :
          /\ fault[t] = "net"
          /\ written[t] >= 1
          /\ pages[t].start_pos <= pages[t].end_pos
          /\ entry[t].status = 1

\* C20: with a server that never sends more than a request asks for, every
\* cursor stays between the original start of its range and end_pos + 1,
\* every byte a segment writes lands inside the range it was given, and no
\* offset of the file is written by two segments.
WithinOwnRange ==
    /\ \A t \in Threads :
          /\ pages[t].end_pos = OrigPages[t].end_pos
          /\ pages[t].start_pos >= OrigPages[t].start_pos
          /\ pages[t].start_pos <= OrigPages[t].end_pos + 1
          /\ tpc[t] = "write" =>
                /\ file_pos >= OrigPages[t].start_pos
                /\ file_pos + data[t].len - 1 <= OrigPages[t].end_pos
          /\ \A o \in DOMAIN writers :
                t \in writers[o] => o \in Bytes(OrigPages[t])
    /\ \A o \in DOMAIN writers : Cardinality(writers[o]) <= 1

\* Witness of C20: two segments have written, the first all of a range of
\* two bytes or more.
WithinOwnRangeWitness ==
    /\ Len(pages) >= 2
    /\ pages[1].start_pos = OrigPages[1].end_pos + 1
    /\ \A o \in Bytes(OrigPages[1]) : o \in DOMAIN writers /\ writers[o] = {1}
    /\ Cardinality(Bytes(OrigPages[1])) >= 2
    /\ \E o \in DOMAIN writers : writers[o] = {2}

\* ======================================================================
\* Properties under fair scheduling (checked under FairSpec)
\* ======================================================================

\* C18: the lock is released on every way out of the locked section, also
\* when seek or write raises: it is never left with a thread that is
\* outside the section, and every thread waiting for it gets it.
LockAlwaysReleased ==
    /\ [](file_lock # 0 => InCritical(file_lock))
    /\ \A t \in 1..MaxThreadsNum :
          (t \in Threads /\ tpc[t] = "acquire")
              ~> (t \in Threads /\ tpc[t] = "seek")

\* Witness of C18: a thread's write has failed, the lock is with a sibling
\* that asked for it.
LockAlwaysReleasedWitness ==
    \E t, u \in Threads :
        /\ fault[t] = "io"
        /\ tpc[t] = "dead"
        /\ written[t] >= 1
        /\ tpc[u] = "write"
        /\ file_lock = u

\* C19: under fair scheduling, once the probe has succeeded every thread
\* ends and start() returns, whatever the number of segments and whichever
\* of them succeed or fail.
Termination ==
    (mainpc = "establish_connect" /\ remote_size # NoLength)
        ~> (mainpc = "done" /\ \A t \in Threads : Over(t))

\* Witness of C19: start() has returned from a job of two segments, one
\* failed, one complete.
TerminationWitness ==
    /\ mainpc = "done"
    /\ Len(pages) >= 2
    /\ \E t, u \in Threads :
          /\ fault[t] = "net"
          /\ entry[t].status = 1
          /\ fault[u] = "none"
          /\ Complete(u)
          /\ written[u] >= 1

====
